---- MODULE Spec2Model ----
(***************************************************************************)
(* Model of src/src/state.rs: the simulation state (State, Drawables), the *)
(* camera transforms between screen pixels and world coordinates, and the  *)
(* curve/body mismatch query.                                              *)
(*                                                                         *)
(* Numbers.  f32 and f64 values are modelled as exact rationals n/d in     *)
(* lowest terms, extended with the IEEE special values: +inf is 1/0, -inf  *)
(* is -1/0 and NaN is 0/0.  Rounding and signed zero are not modelled.     *)
(* u32 and i32 values are TLA+ integers.                                   *)
(***************************************************************************)
EXTENDS Integers, Sequences, FiniteSets

VARIABLES origin, zoom, screen_width, screen_height, view, user_quit,
          drawables, debug_info, pause, render_curves, call

vars == <<origin, zoom, screen_width, screen_height, view, user_quit,
          drawables, debug_info, pause, render_curves, call>>

\* The fields of State, in declaration order (call is the record of the last
\* operation invoked on it, not a field).
fields == <<origin, zoom, screen_width, screen_height, view, user_quit,
            drawables, debug_info, pause, render_curves>>

(***************************************************************************)
(* Floating point values                                                   *)
(***************************************************************************)
Abs(i) == IF i < 0 THEN -i ELSE i

Sign(i) == IF i > 0 THEN 1 ELSE IF i < 0 THEN -1 ELSE 0

RECURSIVE GCD(_, _)
GCD(a, b) == IF b = 0 THEN a ELSE GCD(b, a % b)

\* n/d in lowest terms with d >= 0; d = 0 gives +inf, -inf or NaN.
Float(n, d) ==
    IF d = 0 THEN [n |-> Sign(n), d |-> 0]
    ELSE LET g == GCD(Abs(n), Abs(d))
             s == Sign(d)
         IN [n |-> (s * n) \div g, d |-> (s * d) \div g]

FromInt(i) == [n |-> i, d |-> 1]

NaN == [n |-> 0, d |-> 0]

Infinity == [n |-> 1, d |-> 0]

IsNaN(a) == a.n = 0 /\ a.d = 0

IsInf(a) == a.n # 0 /\ a.d = 0

IsFinite(a) == a.d # 0

FNeg(a) == [n |-> -a.n, d |-> a.d]

FAdd(a, b) ==
    IF IsNaN(a) \/ IsNaN(b) THEN NaN
    ELSE IF IsInf(a) /\ IsInf(b) THEN (IF a.n = b.n THEN a ELSE NaN)
    ELSE IF IsInf(a) THEN a
    ELSE IF IsInf(b) THEN b
    ELSE Float(a.n * b.d + b.n * a.d, a.d * b.d)

FSub(a, b) == FAdd(a, FNeg(b))

\* inf * 0 = NaN, inf * x = +-inf, NaN * x = NaN all fall out of n/d products.
FMul(a, b) == Float(a.n * b.n, a.d * b.d)

FDiv(a, b) ==
    IF IsNaN(a) \/ IsNaN(b) THEN NaN
    ELSE IF IsInf(a) THEN (IF IsInf(b) THEN NaN
                           ELSE [n |-> a.n * (IF b.n < 0 THEN -1 ELSE 1), d |-> 0])
    ELSE IF IsInf(b) THEN FromInt(0)
    ELSE IF b.n = 0 THEN [n |-> Sign(a.n), d |-> 0]
    ELSE Float(a.n * b.d, a.d * b.n)

\* a > b; false when either is NaN.
FGt(a, b) ==
    /\ ~IsNaN(a)
    /\ ~IsNaN(b)
    /\ IF a.d = 0 /\ b.d = 0 THEN a.n > b.n ELSE a.n * b.d > b.n * a.d

FLt(a, b) == FGt(b, a)

\* a == b as the language compares floats: NaN equals nothing.
FEq(a, b) == ~IsNaN(a) /\ ~IsNaN(b) /\ a = b

\* f64::min: the smaller value; a NaN operand is ignored.
FMin(a, b) ==
    IF IsNaN(a) THEN b
    ELSE IF IsNaN(b) THEN a
    ELSE IF FLt(b, a) THEN b ELSE a

(***************************************************************************)
(* Vectors                                                                 *)
(***************************************************************************)
Vector2(x, y) == [x |-> x, y |-> y]

VAdd(u, v) == Vector2(FAdd(u.x, v.x), FAdd(u.y, v.y))

VSub(u, v) == Vector2(FSub(u.x, v.x), FSub(u.y, v.y))

\* PartialEq of Vector2<f32>, as assert_eq! uses it.
VEq(u, v) == FEq(u.x, v.x) /\ FEq(u.y, v.y)

\* cgmath's MetricSpace::distance is the square root of the squared distance;
\* the root is kept symbolic: the value is sqrt(sq).
distance(p, q) ==
    LET dx == FSub(p.x, q.x)
        dy == FSub(p.y, q.y)
    IN [sq |-> FAdd(FMul(dx, dx), FMul(dy, dy))]

\* sqrt(dist.sq) > m, decided exactly: a NaN on either side compares false, a
\* negative m is below every distance, otherwise both sides are squared.
DistGt(dist, m) ==
    /\ ~IsNaN(dist.sq)
    /\ ~IsNaN(m)
    /\ IF FLt(m, FromInt(0)) THEN TRUE
       ELSE IF IsInf(m) THEN FALSE
       ELSE IF IsInf(dist.sq) THEN TRUE
       ELSE FGt(dist.sq, FMul(m, m))

(***************************************************************************)
(* Integer conversions                                                     *)
(***************************************************************************)
I32_MAX == 2147483647

\* `u as i32` for a u32: values above i32::MAX wrap to negative ones.
as_i32(u) == IF u > I32_MAX THEN (u - I32_MAX) - I32_MAX - 2 ELSE u

\* `i as f32`
as_f32(i) == FromInt(i)

(***************************************************************************)
(* Bounds of the model                                                     *)
(***************************************************************************)
\* Screen sizes w x h with w, h <= MaxSmallDim are tried beside the tests'.
MaxSmallDim == 2

\* The camera is panned at most MaxPan steps, rightwards or downwards, away
\* from (0,0).
MaxPan == 2

\* The predictor hands over at most MaxCurves curves.
MaxCurves == 2

\* The integrator advances the bodies at most MaxSteps time steps.
MaxSteps == 1

(***************************************************************************)
(* Drawables                                                               *)
(***************************************************************************)
\* Uuid::new_v4(): the k-th identifier the generator hands out.  The
\* generator is collision resistant: different draws give different values.
Uuid_new_v4(k) == k

OrbitBody(id, center, radius, mass, velocity) ==
    [id |-> id, center |-> center, radius |-> radius, mass |-> mass,
     velocity |-> velocity]

OrbitCurve(plots) == [plots |-> plots]

\* Drawables::initial with one identifier drawn and given to the last two
\* bodies.
Drawables_initial_shared_id ==
    LET shared == Uuid_new_v4(3)
        bodies == <<
            OrbitBody(Uuid_new_v4(1),
                      Vector2(FromInt(0), FromInt(0)),
                      Float(12, 10),
                      FromInt(1660),
                      Vector2(FromInt(0), FromInt(-1))),
            OrbitBody(Uuid_new_v4(2),
                      Vector2(Float(35, 10), FromInt(0)),
                      Float(9, 10),
                      FromInt(1000),
                      Vector2(FromInt(0), Float(16, 10))),
            OrbitBody(shared,
                      Vector2(FromInt(9), FromInt(0)),
                      Float(3, 10),
                      FromInt(1),
                      Vector2(FromInt(0), FromInt(2))),
            OrbitBody(shared,
                      Vector2(FromInt(-12), FromInt(0)),
                      Float(4, 10),
                      FromInt(2),
                      Vector2(FromInt(0), Float(-15, 10))) >>
    IN [orbit_bodies |-> bodies, orbit_curves |-> <<>>]

Drawables_initial ==
    LET bodies == <<
            OrbitBody(Uuid_new_v4(1),
                      Vector2(FromInt(0), FromInt(0)),
                      Float(12, 10),
                      FromInt(1660),
                      Vector2(FromInt(0), FromInt(-1))),
            OrbitBody(Uuid_new_v4(2),
                      Vector2(Float(35, 10), FromInt(0)),
                      Float(9, 10),
                      FromInt(1000),
                      Vector2(FromInt(0), Float(16, 10))),
            OrbitBody(Uuid_new_v4(3),
                      Vector2(FromInt(9), FromInt(0)),
                      Float(3, 10),
                      FromInt(1),
                      Vector2(FromInt(0), FromInt(2))),
            OrbitBody(Uuid_new_v4(4),
                      Vector2(FromInt(-12), FromInt(0)),
                      Float(4, 10),
                      FromInt(2),
                      Vector2(FromInt(0), Float(-15, 10))) >>
    IN [orbit_bodies |-> bodies, orbit_curves |-> <<>>]

\* .map(|b| b.radius).fold(1./0., f64::min), over bodies from index i on
RECURSIVE fold_min_radius(_, _, _)
fold_min_radius(bodies, i, acc) ==
    IF i > Len(bodies) THEN acc
    ELSE fold_min_radius(bodies, i + 1, FMin(acc, bodies[i].radius))

Returned(v) == [kind |-> "returned", value |-> v]

\* The thread panics: `index out of bounds`.
Panicked == [kind |-> "panicked", value |-> "index out of bounds"]

\* The loop with `>=` for `>`: a drift equal to the threshold is a mismatch.
RECURSIVE mismatch_loop_ge(_, _, _)
mismatch_loop_ge(self, idx, mismatch_distance) ==
    IF idx > Len(self.orbit_curves) THEN Returned(FALSE)
    ELSE LET curve == self.orbit_curves[idx]
         IN IF curve.plots # <<>>
            THEN IF idx > Len(self.orbit_bodies) THEN Panicked
                 ELSE LET dist_to_body ==
                              distance(curve.plots[1], self.orbit_bodies[idx].center)
                      IN IF \/ DistGt(dist_to_body, mismatch_distance)
                            \/ /\ ~FLt(mismatch_distance, FromInt(0))
                               /\ dist_to_body.sq
                                      = FMul(mismatch_distance, mismatch_distance)
                         THEN Returned(TRUE)
                         ELSE mismatch_loop_ge(self, idx + 1, mismatch_distance)
            ELSE mismatch_loop_ge(self, idx + 1, mismatch_distance)

\* The loop reading orbit_bodies[idx] before it looks at the curve's plots.
RECURSIVE mismatch_loop_eager(_, _, _)
mismatch_loop_eager(self, idx, mismatch_distance) ==
    IF idx > Len(self.orbit_curves) THEN Returned(FALSE)
    ELSE LET curve == self.orbit_curves[idx]
         IN IF idx > Len(self.orbit_bodies) THEN Panicked
            ELSE IF curve.plots # <<>>
            THEN LET dist_to_body ==
                         distance(curve.plots[1], self.orbit_bodies[idx].center)
                 IN IF DistGt(dist_to_body, mismatch_distance)
                    THEN Returned(TRUE)
                    ELSE mismatch_loop_eager(self, idx + 1, mismatch_distance)
            ELSE mismatch_loop_eager(self, idx + 1, mismatch_distance)

\* The for loop of curve_body_mismatch from curve idx on (idx counts from 1).
RECURSIVE mismatch_loop(_, _, _)
mismatch_loop(self, idx, mismatch_distance) ==
    IF idx > Len(self.orbit_curves) THEN Returned(FALSE)
    ELSE LET curve == self.orbit_curves[idx]
         IN IF curve.plots # <<>>
            THEN IF idx > Len(self.orbit_bodies) THEN Panicked
                 ELSE LET dist_to_body ==
                              distance(curve.plots[1], self.orbit_bodies[idx].center)
                      IN IF DistGt(dist_to_body, mismatch_distance)
                         THEN Returned(TRUE)
                         ELSE mismatch_loop(self, idx + 1, mismatch_distance)
            ELSE mismatch_loop(self, idx + 1, mismatch_distance)

curve_body_mismatch(self, fault_tolerance) ==
    LET mismatch_distance ==
            FMul(fold_min_radius(self.orbit_bodies, 1, Infinity), fault_tolerance)
    IN mismatch_loop(self, 1, mismatch_distance)

(***************************************************************************)
(* State                                                                   *)
(***************************************************************************)
\* Matrix4::identity() with z.z = height; m[c][r] is column c, row r.
birds_eye_at_z(height) ==
    [c \in 1..4 |-> [r \in 1..4 |->
        IF c = 3 /\ r = 3 THEN height
        ELSE IF c = r THEN FromInt(1) ELSE FromInt(0)]]

ComputeDebugInfo_initial == "ComputeDebugInfo::initial"

State_new(width, height) ==
    [origin |-> Vector2(FromInt(0), FromInt(0)),
     zoom |-> FromInt(16),
     screen_width |-> width,
     screen_height |-> height,
     view |-> birds_eye_at_z(FromInt(1)),
     user_quit |-> FALSE,
     drawables |-> Drawables_initial,
     debug_info |-> ComputeDebugInfo_initial,
     pause |-> FALSE,
     render_curves |-> TRUE]

aspect_ratio(self) == FDiv(as_f32(self.screen_width), as_f32(self.screen_height))

\* cgmath::ortho(left, right, bottom, top, near, far): the projection of the box
\* with these planes, kept as the planes it was built from.
ortho(left, right, bottom, top, near, far) ==
    [left |-> left, right |-> right, bottom |-> bottom, top |-> top,
     near |-> near, far |-> far]

\* projection with the horizontal half-extent zoom, the aspect ratio left out.
projection_square(self) ==
    ortho(FSub(self.origin.x, self.zoom),
          FAdd(self.origin.x, self.zoom),
          FSub(self.origin.y, self.zoom),
          FAdd(self.origin.y, self.zoom),
          FromInt(1),
          FromInt(-1))

projection(self) ==
    ortho(FSub(self.origin.x, FMul(self.zoom, aspect_ratio(self))),
          FAdd(self.origin.x, FMul(self.zoom, aspect_ratio(self))),
          FSub(self.origin.y, self.zoom),
          FAdd(self.origin.y, self.zoom),
          FromInt(1),
          FromInt(-1))

\* screen_to_world_normalised without the flip of the y axis.
screen_to_world_normalised_noflip(self, pixels) ==
    LET x_world ==
            FMul(FMul(self.zoom, aspect_ratio(self)),
                 FSub(FDiv(FMul(as_f32(pixels.x), FromInt(2)),
                           as_f32(self.screen_width)),
                      FromInt(1)))
        y_world ==
            FMul(self.zoom,
                 FSub(FDiv(FMul(as_f32(pixels.y), FromInt(2)),
                           as_f32(self.screen_height)),
                      FromInt(1)))
    IN Vector2(x_world, y_world)

\* screen_to_world_normalised scaling the camera's position with the window.
screen_to_world_normalised_panned(self, pixels) ==
    LET x_world ==
            FMul(FAdd(FMul(self.zoom, aspect_ratio(self)), self.origin.x),
                 FSub(FDiv(FMul(as_f32(pixels.x), FromInt(2)),
                           as_f32(self.screen_width)),
                      FromInt(1)))
        y_world ==
            FMul(FAdd(self.zoom, self.origin.y),
                 FAdd(FDiv(FMul(as_f32(-pixels.y), FromInt(2)),
                           as_f32(self.screen_height)),
                      FromInt(1)))
    IN Vector2(x_world, y_world)

screen_to_world_normalised(self, pixels) ==
    LET x_world ==
            FMul(FMul(self.zoom, aspect_ratio(self)),
                 FSub(FDiv(FMul(as_f32(pixels.x), FromInt(2)),
                           as_f32(self.screen_width)),
                      FromInt(1)))
        y_world ==
            FMul(self.zoom,
                 FAdd(FDiv(FMul(as_f32(-pixels.y), FromInt(2)),
                           as_f32(self.screen_height)),
                      FromInt(1)))
    IN Vector2(x_world, y_world)

\* screen_to_world without the camera's pan.
screen_to_world_unpanned(self, pixels) ==
    screen_to_world_normalised(self, pixels)

screen_to_world(self, pixels) ==
    VAdd(self.origin, screen_to_world_normalised(self, pixels))

\* visible_world_range from the top-left and bottom-right pixels.
visible_world_range_unflipped(self) ==
    << screen_to_world(self, Vector2(0, 0)),
       screen_to_world(self, Vector2(as_i32(self.screen_width),
                                     as_i32(self.screen_height))) >>

visible_world_range(self) ==
    << screen_to_world(self, Vector2(0, as_i32(self.screen_height))),
       screen_to_world(self, Vector2(as_i32(self.screen_width), 0)) >>

(***************************************************************************)
(* The state machine                                                       *)
(***************************************************************************)
\* The State value the variables hold.
this ==
    [origin |-> origin, zoom |-> zoom, screen_width |-> screen_width,
     screen_height |-> screen_height, view |-> view, user_quit |-> user_quit,
     drawables |-> drawables, debug_info |-> debug_info, pause |-> pause,
     render_curves |-> render_curves]

\* The variables hold the State value s.
Holds(s) ==
    /\ origin = s.origin
    /\ zoom = s.zoom
    /\ screen_width = s.screen_width
    /\ screen_height = s.screen_height
    /\ view = s.view
    /\ user_quit = s.user_quit
    /\ drawables = s.drawables
    /\ debug_info = s.debug_info
    /\ pause = s.pause
    /\ render_curves = s.render_curves

\* The record of the last operation: its name, its argument, its outcome and,
\* for a repeated query, how many times in a row it was made.
Call(name, arg, ret, n) == [name |-> name, arg |-> arg, ret |-> ret, n |-> n]

\* A write to a field by the host, the integrator or the predictor.
Mutation == Call("write", <<>>, Returned(<<>>), 1)

\* A panic ends the process: nothing runs after it.
Running == call.ret.kind # "panicked"

\* Screen sizes of the tests, one with an odd width, and every small one; 0 is
\* a size State::new accepts.
NewSizes ==
    {<<100, 100>>, <<160, 90>>, <<180, 90>>, <<3, 2>>}
        \cup ((0..MaxSmallDim) \X (0..MaxSmallDim))

\* Sizes a resize hands over: both dimensions are > 0.
ScreenSizes == {wh \in NewSizes : wh[1] > 0 /\ wh[2] > 0}

Init ==
    \E wh \in NewSizes :
        /\ Holds(State_new(wh[1], wh[2]))
        /\ call = Call("new", wh, Returned(State_new(wh[1], wh[2])), 1)

\* --- the host: camera -------------------------------------------------------
PanSteps ==
    {Vector2(Float(1, 2), FromInt(0)), Vector2(Float(-1, 2), FromInt(0)),
     Vector2(FromInt(0), Float(1, 3)), Vector2(FromInt(0), Float(-1, 3))}

\* o is x steps right of and y steps below (0,0), with x + y <= MaxPan.
InPanRange(o) ==
    /\ ~FLt(o.x, FromInt(0))
    /\ ~FGt(o.y, FromInt(0))
    /\ ~FGt(FSub(FMul(FromInt(2), o.x), FMul(FromInt(3), o.y)), FromInt(MaxPan))

Pan ==
    \E d \in PanSteps :
        /\ Running
        /\ InPanRange(VAdd(origin, d))
        /\ origin' = VAdd(origin, d)
        /\ call' = Mutation
        /\ UNCHANGED <<zoom, screen_width, screen_height, view, user_quit,
                       drawables, debug_info, pause, render_curves>>

\* Zoom levels of the tests: 0.33, 3 and the initial 16.
Zooms == {Float(33, 100), FromInt(3), FromInt(16)}

SetZoom ==
    \E z \in Zooms :
        /\ Running
        /\ zoom' = z
        /\ call' = Mutation
        /\ UNCHANGED <<origin, screen_width, screen_height, view, user_quit,
                       drawables, debug_info, pause, render_curves>>

Resize ==
    \E wh \in ScreenSizes :
        /\ Running
        /\ screen_width' = wh[1]
        /\ screen_height' = wh[2]
        /\ call' = Mutation
        /\ UNCHANGED <<origin, zoom, view, user_quit, drawables, debug_info,
                       pause, render_curves>>

\* --- the camera queries -----------------------------------------------------
\* Pixels asked about: the four corners, the centre (integer division, as the
\* tests compute it) and one pixel off the grid of corners.
Pixels(self) ==
    LET w == as_i32(self.screen_width)
        h == as_i32(self.screen_height)
    IN {Vector2(0, 0), Vector2(w, 0), Vector2(0, h), Vector2(w, h),
        Vector2(w \div 2, h \div 2), Vector2(1, 3)}

CallAspectRatio ==
    /\ Running
    /\ call' = Call("aspect_ratio", <<>>, Returned(aspect_ratio(this)), 1)
    /\ UNCHANGED fields

CallProjection ==
    /\ Running
    /\ call' = Call("projection", <<>>, Returned(projection(this)), 1)
    /\ UNCHANGED fields

CallScreenToWorldNormalised ==
    \E p \in Pixels(this) :
        /\ Running
        /\ call' = Call("screen_to_world_normalised", p,
                        Returned(screen_to_world_normalised(this, p)), 1)
        /\ UNCHANGED fields

CallScreenToWorld ==
    \E p \in Pixels(this) :
        /\ Running
        /\ call' = Call("screen_to_world", p, Returned(screen_to_world(this, p)), 1)
        /\ UNCHANGED fields

CallVisibleWorldRange ==
    /\ Running
    /\ call' = Call("visible_world_range", <<>>, Returned(visible_world_range(this)), 1)
    /\ UNCHANGED fields

\* --- the host: flags --------------------------------------------------------
TogglePause ==
    /\ Running
    /\ pause' = ~pause
    /\ call' = Mutation
    /\ UNCHANGED <<origin, zoom, screen_width, screen_height, view, user_quit,
                   drawables, debug_info, render_curves>>

ToggleRenderCurves ==
    /\ Running
    /\ render_curves' = ~render_curves
    /\ call' = Mutation
    /\ UNCHANGED <<origin, zoom, screen_width, screen_height, view, user_quit,
                   drawables, debug_info, pause>>

Quit ==
    /\ Running
    /\ user_quit' = TRUE
    /\ call' = Mutation
    /\ UNCHANGED <<origin, zoom, screen_width, screen_height, view, drawables,
                   debug_info, pause, render_curves>>

Next ==
    \/ Pan
    \/ SetZoom
    \/ Resize
    \/ CallAspectRatio
    \/ CallProjection
    \/ CallScreenToWorldNormalised
    \/ CallScreenToWorld
    \/ CallVisibleWorldRange

\* The host driving the camera of a State built by State::new, and its queries.
Spec == Init /\ [][Next]_vars

(***************************************************************************)
(* The drawables: integrator, predictor and the mismatch query             *)
(***************************************************************************)
\* The time step of the integrator.
Dt == Float(1, 10)

\* One step of the integrator: every body moves along its velocity.
step_body(b) ==
    [b EXCEPT !.center = VAdd(b.center, Vector2(FMul(b.velocity.x, Dt),
                                                 FMul(b.velocity.y, Dt)))]

\* Body b is at most MaxSteps steps away from where it started (y = 0).
InStepRange(b) ==
    LET reach == FMul(FromInt(MaxSteps), FMul(b.velocity.y, Dt))
    IN /\ ~FGt(b.center.y, FMul(reach, FromInt(Sign(reach.n))))
       /\ ~FLt(b.center.y, FNeg(FMul(reach, FromInt(Sign(reach.n)))))

PhysicsStep ==
    LET moved == [i \in 1..Len(drawables.orbit_bodies) |->
                      step_body(drawables.orbit_bodies[i])]
    IN /\ Running
       /\ drawables.orbit_bodies # <<>>
       /\ \A i \in 1..Len(moved) : InStepRange(moved[i])
       /\ drawables' = [drawables EXCEPT !.orbit_bodies = moved]
       /\ call' = Mutation
       /\ UNCHANGED <<origin, zoom, screen_width, screen_height, view, user_quit,
                      debug_info, pause, render_curves>>

\* The host removes the last body.
RemoveBody ==
    /\ Running
    /\ drawables.orbit_bodies # <<>>
    /\ drawables' = [drawables EXCEPT !.orbit_bodies =
                        SubSeq(drawables.orbit_bodies, 1,
                               Len(drawables.orbit_bodies) - 1)]
    /\ call' = Mutation
    /\ UNCHANGED <<origin, zoom, screen_width, screen_height, view, user_quit,
                   debug_info, pause, render_curves>>

\* Where the predictor saw body j when it ran: its starting point, or (0,0)
\* for a curve without a starting body.
seen_center(j) ==
    IF j <= Len(Drawables_initial.orbit_bodies)
    THEN Drawables_initial.orbit_bodies[j].center
    ELSE Vector2(FromInt(0), FromInt(0))

\* The curves the predictor may hand over for body j: nothing plotted yet, a
\* curve starting 3/10 beside the body, or one starting 1 beside it and
\* passing through it.
CurveChoices(j) ==
    {OrbitCurve(<<>>),
     OrbitCurve(<<VAdd(seen_center(j), Vector2(Float(3, 10), FromInt(0)))>>),
     OrbitCurve(<<VAdd(seen_center(j), Vector2(FromInt(1), FromInt(0))),
                  seen_center(j)>>)}

CurveSets ==
    UNION {{cs \in [1..n -> UNION {CurveChoices(j) : j \in 1..n}] :
                \A j \in 1..n : cs[j] \in CurveChoices(j)} : n \in 0..MaxCurves}

\* The predictor replaces every curve.
SetCurves ==
    \E cs \in CurveSets :
        /\ Running
        /\ drawables' = [drawables EXCEPT !.orbit_curves = cs]
        /\ call' = Mutation
        /\ UNCHANGED <<origin, zoom, screen_width, screen_height, view, user_quit,
                       debug_info, pause, render_curves>>

\* Tolerances asked with: the documented range (0,1] and values outside it.
FaultTolerances ==
    {FromInt(0), Float(1, 2), FromInt(1), FromInt(2), FromInt(-1), NaN}

\* The query taking the first point off every curve it has looked at.
CallCurveBodyMismatch_draining ==
    \E fault_tolerance \in FaultTolerances :
        /\ Running
        /\ call' = Call("curve_body_mismatch", fault_tolerance,
                        curve_body_mismatch(drawables, fault_tolerance),
                        IF call.name = "curve_body_mismatch"
                               /\ call.arg = fault_tolerance
                        THEN 2 ELSE 1)
        /\ drawables' =
               [drawables EXCEPT !.orbit_curves =
                    [i \in 1..Len(drawables.orbit_curves) |->
                         IF drawables.orbit_curves[i].plots = <<>>
                         THEN drawables.orbit_curves[i]
                         ELSE OrbitCurve(Tail(drawables.orbit_curves[i].plots))]]
        /\ UNCHANGED <<origin, zoom, screen_width, screen_height, view, user_quit,
                       debug_info, pause, render_curves>>

\* A query is made on &self: it writes nothing.
CallCurveBodyMismatch ==
    \E fault_tolerance \in FaultTolerances :
        /\ Running
        /\ call' = Call("curve_body_mismatch", fault_tolerance,
                        curve_body_mismatch(drawables, fault_tolerance),
                        IF call.name = "curve_body_mismatch"
                               /\ call.arg = fault_tolerance
                        THEN 2 ELSE 1)
        /\ UNCHANGED fields

InitDrawables == Init /\ screen_width = 100 /\ screen_height = 100

NextDrawables ==
    \/ PhysicsStep
    \/ RemoveBody
    \/ SetCurves
    \/ TogglePause
    \/ ToggleRenderCurves
    \/ Quit
    \/ CallCurveBodyMismatch

\* The integrator, the predictor, the host's flags and its periodic mismatch
\* query.
SpecDrawables == InitDrawables /\ [][NextDrawables]_vars

(***************************************************************************)
(* Properties                                                              *)
(***************************************************************************)
Zero2 == Vector2(FromInt(0), FromInt(0))

\* Both screen dimensions and the zoom are > 0.
CameraValid == screen_width > 0 /\ screen_height > 0 /\ FGt(zoom, FromInt(0))

\* zoom * a, with a = screen_width / screen_height.
HalfWidth == FMul(zoom, Float(screen_width, screen_height))

\* C3: with both screen dimensions and the zoom > 0, screen_to_world maps the
\* pixel (0,0) to origin + (-a*zoom, zoom), (screen_width,0) to
\* origin + (a*zoom, zoom), (0,screen_height) to origin + (-a*zoom, -zoom) and
\* (screen_width,screen_height) to origin + (a*zoom, -zoom).
C3_CornersMapToCorners ==
    (call.name = "screen_to_world" /\ CameraValid) =>
        LET r == call.ret.value
            left == FAdd(origin.x, FNeg(HalfWidth))
            right == FAdd(origin.x, HalfWidth)
            top == FAdd(origin.y, zoom)
            bottom == FAdd(origin.y, FNeg(zoom))
        IN /\ call.ret.kind = "returned"
           /\ call.arg = Vector2(0, 0) => VEq(r, Vector2(left, top))
           /\ call.arg = Vector2(screen_width, 0) => VEq(r, Vector2(right, top))
           /\ call.arg = Vector2(0, screen_height) => VEq(r, Vector2(left, bottom))
           /\ call.arg = Vector2(screen_width, screen_height)
                  => VEq(r, Vector2(right, bottom))

\* The bottom-right corner was asked for on a panned, zoomed, non-square screen.
C3_Witness ==
    /\ call.name = "screen_to_world"
    /\ call.arg = Vector2(screen_width, screen_height)
    /\ CameraValid
    /\ screen_width # screen_height
    /\ origin.x # FromInt(0)
    /\ origin.y # FromInt(0)
    /\ zoom = Float(33, 100)

\* The pixel the tests take for the centre: each dimension halved as an i32.
CenterPixel == Vector2(as_i32(screen_width) \div 2, as_i32(screen_height) \div 2)

C6_NewState ==
    call.name = "new" =>
        LET s == call.ret.value
            bodies == s.drawables.orbit_bodies
        IN /\ call.ret.kind = "returned"
           /\ this = s
           /\ Len(bodies) = 4
           /\ \A i, j \in 1..Len(bodies) : i # j => bodies[i].id # bodies[j].id
           /\ s.drawables.orbit_curves = <<>>
           /\ s.pause = FALSE
           /\ s.render_curves = TRUE
           /\ s.user_quit = FALSE
           /\ s.origin = Zero2
           /\ s.zoom = FromInt(16)
           /\ s.screen_width = call.arg[1]
           /\ s.screen_height = call.arg[2]

\* State::new(160, 90) was called.
C6_Witness == call.name = "new" /\ call.arg = <<160, 90>> /\ screen_width = 160

OrthoRect(m) == <<Vector2(m.left, m.bottom), Vector2(m.right, m.top)>>

MismatchAsked == call.name = "curve_body_mismatch"

\* Curve i has a plotted point.
Plotted(i) == drawables.orbit_curves[i].plots # <<>>

\* The least radius of the bodies, +inf when there is none.
MinRadius ==
    LET radii == {drawables.orbit_bodies[i].radius :
                      i \in 1..Len(drawables.orbit_bodies)}
    IN IF radii = {} THEN Infinity
       ELSE CHOOSE m \in radii : \A r \in radii : ~FLt(r, m)

\* The square of the distance from curve i's first point to body i's centre.
DriftSquared(i) ==
    LET p == drawables.orbit_curves[i].plots[1]
        c == drawables.orbit_bodies[i].center
    IN FAdd(FMul(FSub(p.x, c.x), FSub(p.x, c.x)),
            FMul(FSub(p.y, c.y), FSub(p.y, c.y)))

\* Curve i's first point lies strictly farther than t from body i's centre.
\* The distance is never negative, so for t >= 0 the squares are compared.
DriftsBeyond(i, t) ==
    /\ ~IsNaN(t)
    /\ \/ FLt(t, FromInt(0))
       \/ IsFinite(t) /\ FGt(DriftSquared(i), FMul(t, t))

\* C1: with no more curves than bodies, curve_body_mismatch(fault_tolerance)
\* returns true if and only if some curve i has a plotted point whose first
\* point lies strictly farther than (least radius) * fault_tolerance from
\* body i's centre; a distance equal to that threshold is no mismatch.
C1_MismatchIffDrift ==
    (MismatchAsked /\ Len(drawables.orbit_curves) <= Len(drawables.orbit_bodies)) =>
        LET threshold == FMul(MinRadius, call.arg)
        IN /\ call.ret.kind = "returned"
           /\ call.ret.value =
                  (\E i \in 1..Len(drawables.orbit_curves) :
                       Plotted(i) /\ DriftsBeyond(i, threshold))
           /\ (/\ ~FLt(threshold, FromInt(0))
               /\ \A i \in 1..Len(drawables.orbit_curves) :
                      Plotted(i) => DriftSquared(i) = FMul(threshold, threshold))
                  => call.ret.value = FALSE

\* The query answered false with a curve exactly on the threshold, and no
\* curve beyond it.
C1_Witness ==
    /\ MismatchAsked
    /\ Len(drawables.orbit_curves) <= Len(drawables.orbit_bodies)
    /\ call.ret = Returned(FALSE)
    /\ FGt(FMul(MinRadius, call.arg), FromInt(0))
    /\ \E i \in 1..Len(drawables.orbit_curves) :
           /\ Plotted(i)
           /\ DriftSquared(i) = FMul(FMul(MinRadius, call.arg), FMul(MinRadius, call.arg))

\* C2 as stated: curve_body_mismatch has no failure mode: whatever the bodies,
\* the curves and the tolerance, the call returns a boolean.
C2_NoFailureMode ==
    MismatchAsked => (call.ret.kind = "returned" /\ call.ret.value \in BOOLEAN)

\* C7: curve_body_mismatch returns false whenever no curve has a plotted
\* point, whatever the tolerance and the bodies.
C7_NothingPlottedIsNoMismatch ==
    (MismatchAsked /\ \A i \in 1..Len(drawables.orbit_curves) : ~Plotted(i)) =>
        call.ret = Returned(FALSE)

\* The query was made with tolerance 0 on curves without a point and no body
\* left: the threshold is +inf * 0.
C7_Witness ==
    /\ MismatchAsked
    /\ call.arg = FromInt(0)
    /\ drawables.orbit_bodies = <<>>
    /\ drawables.orbit_curves # <<>>
    /\ \A i \in 1..Len(drawables.orbit_curves) : ~Plotted(i)

====
